---- MODULE Spec2Model ----
(***************************************************************************)
(* Model of the configuration reader of libstandard (src/util.go):         *)
(* Read = readStructMetadata ; parseFile ; readEnvVars ; parseFlags ;      *)
(* checkRequired, with the value coercion of parseValue / parseSlice /     *)
(* parseMap and the zero test isZero.                                      *)
(*                                                                         *)
(* Texts (Go strings) are sequences of one-character strings, so that      *)
(* splitting, trimming, concatenation and parsing are computed.  A nil     *)
(* pointer / absent tag is None (the empty tuple), a present one Some(x).  *)
(***************************************************************************)
EXTENDS Integers, Sequences, FiniteSets, TLC

None == <<>>
Some(x) == <<x>>
IsSome(o) == Len(o) = 1
Val(o) == o[1]

(***************************************************************************)
(* Package strings.                                                        *)
(***************************************************************************)
\* strings.HasPrefix(s[i-1:], sep), positions counted from 1
HasPrefixAt(s, sep, i) ==
    /\ i + Len(sep) - 1 <= Len(s)
    /\ SubSeq(s, i, i + Len(sep) - 1) = sep

\* strings.Index(s, sep) + 1 for a non-empty sep; 0 when sep does not occur
Index(s, sep) ==
    LET hits == {i \in 1..Len(s) : HasPrefixAt(s, sep, i)}
    IN  IF hits = {} THEN 0 ELSE CHOOSE i \in hits : \A j \in hits : i <= j

\* strings.Split(s, sep): an empty sep explodes s into its characters
RECURSIVE Split(_, _)
Split(s, sep) ==
    IF sep = <<>>
    THEN [i \in 1..Len(s) |-> <<s[i]>>]
    ELSE LET i == Index(s, sep)
         IN  IF i = 0
             THEN <<s>>
             ELSE <<SubSeq(s, 1, i - 1)>> \o Split(SubSeq(s, i + Len(sep), Len(s)), sep)

\* strings.SplitN(s, sep, 2) for a non-empty sep: cut at the first sep only
SplitN2(s, sep) ==
    LET i == Index(s, sep)
    IN  IF i = 0
        THEN <<s>>
        ELSE <<SubSeq(s, 1, i - 1), SubSeq(s, i + Len(sep), Len(s))>>

IsSpace(c) == c \in {" ", "\t", "\n", "\r"}

\* strings.TrimSpace(s)
TrimSpace(s) ==
    LET keep == {i \in 1..Len(s) : ~IsSpace(s[i])}
    IN  IF keep = {} THEN <<>>
        ELSE SubSeq(s, CHOOSE i \in keep : \A j \in keep : i <= j,
                       CHOOSE i \in keep : \A j \in keep : i >= j)

(***************************************************************************)
(* Package strconv, as called by parseValue (base 0, the field's width).   *)
(* A result is [ok |-> TRUE, v |-> value] or [ok |-> FALSE, err |-> kind]. *)
(* The digit separator "_" is not part of the modelled value alphabet.     *)
(***************************************************************************)
Ok(v) == [ok |-> TRUE, v |-> v]
Fail(e) == [ok |-> FALSE, err |-> e]

RECURSIVE Pow2(_)
Pow2(n) == IF n = 0 THEN 1 ELSE 2 * Pow2(n - 1)

\* strconv.ParseBool
ParseBool(s) ==
    IF s \in {<<"1">>, <<"t">>, <<"T">>, <<"t","r","u","e">>,
              <<"T","R","U","E">>, <<"T","r","u","e">>}
    THEN Ok(TRUE)
    ELSE IF s \in {<<"0">>, <<"f">>, <<"F">>, <<"f","a","l","s","e">>,
                   <<"F","A","L","S","E">>, <<"F","a","l","s","e">>}
    THEN Ok(FALSE)
    ELSE Fail("ErrSyntax")

Digits == <<"0","1","2","3","4","5","6","7","8","9","a","b","c","d","e","f">>

\* the digit a character stands for, 99 for a character that is no digit
DigitVal(c) ==
    IF \E i \in 1..Len(Digits) : Digits[i] = c
    THEN (CHOOSE i \in 1..Len(Digits) : Digits[i] = c) - 1
    ELSE IF c \in {"A","B","C","D","E","F"}
    THEN CASE c = "A" -> 10 [] c = "B" -> 11 [] c = "C" -> 12
           [] c = "D" -> 13 [] c = "E" -> 14 [] c = "F" -> 15
    ELSE 99

\* the digit loop of strconv.ParseUint: -1 syntax error, else the number
RECURSIVE DigitsValue(_, _, _)
DigitsValue(s, base, acc) ==
    IF s = <<>> THEN acc
    ELSE IF DigitVal(s[1]) >= base THEN -1
    ELSE DigitsValue(Tail(s), base, acc * base + DigitVal(s[1]))

\* strconv.ParseUint(s, 0, bits)
ParseUint(s, bits) ==
    IF s = <<>> THEN Fail("ErrSyntax")
    ELSE LET pre == Len(s) >= 3 /\ s[1] = "0"
             b == IF s[1] # "0" THEN 10
                  ELSE IF pre /\ s[2] \in {"b","B"} THEN 2
                  ELSE IF pre /\ s[2] \in {"o","O"} THEN 8
                  ELSE IF pre /\ s[2] \in {"x","X"} THEN 16
                  ELSE 8
             rest == IF s[1] # "0" THEN s
                     ELSE IF pre /\ s[2] \in {"b","B","o","O","x","X"}
                     THEN SubSeq(s, 3, Len(s))
                     ELSE Tail(s)
             n == DigitsValue(rest, b, 0)
         IN  IF n < 0 THEN Fail("ErrSyntax")
             ELSE IF n >= Pow2(bits) THEN Fail("ErrRange")
             ELSE Ok(n)

\* strconv.ParseInt(s, 0, bits)
ParseInt(s, bits) ==
    IF s = <<>> THEN Fail("ErrSyntax")
    ELSE LET neg == s[1] = "-"
             body == IF s[1] \in {"+", "-"} THEN Tail(s) ELSE s
             u == ParseUint(body, bits)
             cutoff == Pow2(bits - 1)
         IN  IF ~u.ok THEN u
             ELSE IF ~neg /\ u.v >= cutoff THEN Fail("ErrRange")
             ELSE IF neg /\ u.v > cutoff THEN Fail("ErrRange")
             ELSE Ok(IF neg THEN 0 - u.v ELSE u.v)

(***************************************************************************)
(* Types (reflect.Type) and values (reflect.Value).                        *)
(*   kind   "string" | "bool" | "int" | "uint" | "slice" | "map" |         *)
(*          "struct" | "ptr" (a kind parseValue has no rule for)           *)
(*   bits   width of an integer kind;  key, elem: Some(type) or None       *)
(*   fields of a struct: sequence of field declarations (see Fld)          *)
(* Values: string -> text, bool -> BOOLEAN, int/uint -> integer,           *)
(*   slice -> [isNil, elems], map -> [isNil, kv] (kv a function),          *)
(*   struct -> sequence of its fields' values, ptr -> [isNil].             *)
(***************************************************************************)
Ty(kind, bits, key, elem, fields) ==
    [kind |-> kind, bits |-> bits, key |-> key, elem |-> elem, fields |-> fields]

TString == Ty("string", 0, None, None, <<>>)
TBool == Ty("bool", 0, None, None, <<>>)
TInt(bits) == Ty("int", bits, None, None, <<>>)
TUint(bits) == Ty("uint", bits, None, None, <<>>)
TPtr == Ty("ptr", 0, None, None, <<>>)
TSlice(elem) == Ty("slice", 0, None, Some(elem), <<>>)
TMap(key, elem) == Ty("map", 0, Some(key), Some(elem), <<>>)
TStruct(fields) == Ty("struct", 0, None, None, fields)

\* a struct field declaration with its tags (reflect.StructField); a tag that
\* is absent is None, env-required is present or not
Fld(name, exported, type, env, def, flag, sep, req, prefix) ==
    [name |-> name, exported |-> exported, type |-> type, env |-> env,
     def |-> def, flag |-> flag, sep |-> sep, req |-> req, prefix |-> prefix]

\* the zero value of a type (what a freshly declared variable holds)
RECURSIVE ZeroValue(_)
ZeroValue(t) ==
    CASE t.kind = "string" -> <<>>
      [] t.kind = "bool" -> FALSE
      [] t.kind \in {"int", "uint"} -> 0
      [] t.kind = "slice" -> [isNil |-> TRUE, elems |-> <<>>]
      [] t.kind = "map" -> [isNil |-> TRUE, kv |-> <<>>]
      [] t.kind = "ptr" -> [isNil |-> TRUE]
      [] t.kind = "struct" ->
            [i \in 1..Len(t.fields) |-> ZeroValue(t.fields[i].type)]

\* isZero: backport of reflect.Value.IsZero()
RECURSIVE isZero(_, _)
isZero(t, v) ==
    CASE t.kind = "bool" -> ~v
      [] t.kind \in {"int", "uint"} -> v = 0
      [] t.kind \in {"map", "ptr", "slice"} -> v.isNil
      [] t.kind = "string" -> Len(v) = 0
      [] t.kind = "struct" ->
            \A i \in 1..Len(t.fields) : isZero(t.fields[i].type, v[i])

\* the decimal text of a natural number (strconv.Itoa)
RECURSIVE Itoa(_)
Itoa(n) == IF n < 10 THEN <<Digits[n + 1]>> ELSE Itoa(n \div 10) \o <<Digits[(n % 10) + 1]>>

\* reflect.Type.String() of the modelled types; a structure type is named T
RECURSIVE TypeName(_)
TypeName(t) ==
    CASE t.kind = "string" -> <<"s", "t", "r", "i", "n", "g">>
      [] t.kind = "bool" -> <<"b", "o", "o", "l">>
      [] t.kind = "int" -> <<"i", "n", "t">> \o Itoa(t.bits)
      [] t.kind = "uint" -> <<"u", "i", "n", "t">> \o Itoa(t.bits)
      [] t.kind = "ptr" -> <<"*", "i", "n", "t">>
      [] t.kind = "slice" -> <<"[", "]">> \o TypeName(Val(t.elem))
      [] t.kind = "map" -> <<"m", "a", "p", "[">> \o TypeName(Val(t.key)) \o <<"]">>
                             \o TypeName(Val(t.elem))
      [] t.kind = "struct" -> <<"T">>

\* reflect.Value.String(): the text of a string value, "<T Value>" otherwise
ValueString(t, v) ==
    IF t.kind = "string" THEN v
    ELSE <<"<">> \o TypeName(t) \o <<" ", "V", "a", "l", "u", "e", ">">>

(***************************************************************************)
(* Errors.  The code returns fmt.Errorf / strconv errors; kind is the name *)
(* the error taxonomy gives them, detail what the message carries.         *)
(***************************************************************************)
Error(kind, detail) == [kind |-> kind, detail |-> detail]

\* the byte a character of the modelled alphabet is stored as ([]byte(value))
ByteOf(c) ==
    CASE c = " " -> 32 [] c = "," -> 44 [] c = "-" -> 45 [] c = ":" -> 58
      [] c = "0" -> 48 [] c = "1" -> 49 [] c = "2" -> 50 [] c = "3" -> 51
      [] c = "a" -> 97 [] c = "b" -> 98 [] c = "x" -> 120
      [] OTHER -> 63

(***************************************************************************)
(* parseValue / parseSlice / parseMap.  parseValue(t, old, value, sep)     *)
(* models the call on a field of type t holding old: the result is         *)
(* [err |-> None or Some(error), v |-> what the field holds afterwards].   *)
(* No modelled type implements Setter, so the two type assertions fail.    *)
(***************************************************************************)
RECURSIVE parseValue(_, _, _, _)
RECURSIVE parseSliceElems(_, _, _, _, _)
RECURSIVE parseMapPairs(_, _, _, _)

\* the loop of parseSlice over values[i..]: sliceValue is the slice made so far
parseSliceElems(t, values, sep, i, sliceValue) ==
    IF i > Len(values) THEN [err |-> None, v |-> sliceValue]
    ELSE LET r == parseValue(Val(t.elem), sliceValue.elems[i], values[i], sep)
         IN  IF IsSome(r.err) THEN [err |-> r.err, v |-> None]
             ELSE parseSliceElems(t, values, sep, i + 1,
                    [sliceValue EXCEPT !.elems[i] = r.v])

\* parseSlice that splits every value, a blank one too
parseSlice_SplitAlways(t, value, sep) ==
    IF Val(t.elem).kind = "uint" /\ Val(t.elem).bits = 8
    THEN [err |-> None,
          v |-> [isNil |-> FALSE, elems |-> [i \in 1..Len(value) |-> ByteOf(value[i])]]]
    ELSE LET values == Split(value, sep)
         IN  parseSliceElems(t, values, sep, 1,
                [isNil |-> FALSE,
                 elems |-> [i \in 1..Len(values) |-> ZeroValue(Val(t.elem))]])

parseSlice(t, value, sep) ==
    IF Val(t.elem).kind = "uint" /\ Val(t.elem).bits = 8
    THEN [err |-> None,
          v |-> [isNil |-> FALSE, elems |-> [i \in 1..Len(value) |-> ByteOf(value[i])]]]
    ELSE IF Len(TrimSpace(value)) # 0
    THEN LET values == Split(value, sep)
         IN  parseSliceElems(t, values, sep, 1,
                [isNil |-> FALSE,
                 elems |-> [i \in 1..Len(values) |-> ZeroValue(Val(t.elem))]])
    ELSE [err |-> None, v |-> [isNil |-> FALSE, elems |-> <<>>]]

\* SetMapIndex that keeps the value a key already has
SetMapIndex_KeepFirst(m, k, v) ==
    [m EXCEPT !.kv = [x \in (DOMAIN m.kv) \cup {k} |->
                        IF x \in DOMAIN m.kv THEN m.kv[x] ELSE v]]

\* reflect.Value.SetMapIndex(k, v)
SetMapIndex(m, k, v) ==
    [m EXCEPT !.kv = [x \in (DOMAIN m.kv) \cup {k} |-> IF x = k THEN v ELSE m.kv[x]]]

\* the loop of parseMap over pairs: mapValue is the map filled so far
parseMapPairs(t, pairs, sep, mapValue) ==
    IF pairs = <<>> THEN [err |-> None, v |-> mapValue]
    ELSE LET kvPair == SplitN2(pairs[1], <<":">>)
         IN  IF Len(kvPair) # 2
             THEN [err |-> Some(Error("CoercionError", "invalid map item")), v |-> None]
             ELSE LET k == parseValue(Val(t.key), ZeroValue(Val(t.key)), kvPair[1], sep)
                  IN  IF IsSome(k.err) THEN [err |-> k.err, v |-> None]
                      ELSE LET e == parseValue(Val(t.elem), ZeroValue(Val(t.elem)),
                                               kvPair[2], sep)
                           IN  IF IsSome(e.err) THEN [err |-> e.err, v |-> None]
                               ELSE parseMapPairs(t, Tail(pairs), sep,
                                        SetMapIndex(mapValue, k.v, e.v))

parseMap(t, value, sep) ==
    IF Len(TrimSpace(value)) # 0
    THEN parseMapPairs(t, Split(value, sep), sep, [isNil |-> FALSE, kv |-> <<>>])
    ELSE [err |-> None, v |-> [isNil |-> FALSE, kv |-> <<>>]]

\* SetBuilt that stores a made, empty collection before the error is returned
SetBuilt_MakesFirst(r, old) ==
    IF IsSome(r.err) THEN [err |-> r.err, v |-> [old EXCEPT !.isNil = FALSE]]
    ELSE [err |-> None, v |-> r.v]

\* a strconv result stored into the field, or its error returned
SetParsed(r, old) ==
    IF r.ok THEN [err |-> None, v |-> r.v]
    ELSE [err |-> Some(Error("CoercionError", r.err)), v |-> old]

\* a parseSlice / parseMap result stored into the field (field.Set), or its error
SetBuilt(r, old) ==
    IF IsSome(r.err) THEN [err |-> r.err, v |-> old] ELSE [err |-> None, v |-> r.v]

parseValue(t, old, value, sep) ==
    CASE t.kind = "string" -> [err |-> None, v |-> value]
      [] t.kind = "bool" -> SetParsed(ParseBool(value), old)
      [] t.kind = "int" -> SetParsed(ParseInt(value, t.bits), old)
      [] t.kind = "uint" -> SetParsed(ParseUint(value, t.bits), old)
      [] t.kind = "slice" -> SetBuilt(parseSlice(t, value, sep), old)
      [] t.kind = "map" -> SetBuilt(parseMap(t, value, sep), old)
      [] OTHER -> [err |-> Some(Error("UnsupportedTypeError", t.kind)), v |-> old]

(***************************************************************************)
(* The state of one call Read(cfg, flags, file, defaultCfg).               *)
(***************************************************************************)
VARIABLES
    cfgT,        \* the type of the value cfg points to
    cfg,         \* the value cfg points to (the caller's ConfigRoot)
    environ,     \* the process environment: a function from the set names
    flags,       \* None (nil) or Some(flag set): name -> [Changed, Value, DefValue]
    file,        \* the file argument (a path text, <<>> for "")
    defaultCfg,  \* the DefaultFileConfig argument [Name, Extensions, Paths]
    fs,          \* the file system: path -> [ok, doc] (decodable, decoded content)
    pc,          \* where Read is
    cfgStack,    \* readStructMetadata: the work queue of [Val, Prefix]
    stackIdx,    \* readStructMetadata: the index i into cfgStack
    metaInfo,    \* the []structMeta Read holds
    metaIdx,     \* readEnvVars / parseFlags: position of the range loop
    rawValue,    \* readEnvVars / parseFlags: rawValue of the last iteration
    err,         \* the error Read returns: None (nil) or Some(error)
    caller,      \* the caller of Read: [file |-> the file argument it passes,
                 \*   first |-> None or Some([cfg, err]) its earlier call gave]
    stringSlice, \* Unique: the argument
    list         \* Unique: None before the call, Some(result) after it

vars == <<cfgT, cfg, environ, flags, file, defaultCfg, fs, pc, cfgStack,
          stackIdx, metaInfo, metaIdx, rawValue, err, caller, stringSlice, list>>

\* what no step of Read touches: its caller's record and the state of Unique
outside == <<caller, stringSlice, list>>

inputs == <<cfgT, environ, flags, file, defaultCfg, fs>>

\* DefaultSeparator = ","
DefaultSeparator == <<",">>

\* the type / the value reached from the root by a path of field indices
RECURSIVE TypeAt(_, _)
TypeAt(t, path) ==
    IF path = <<>> THEN t ELSE TypeAt(t.fields[path[1]].type, Tail(path))

RECURSIVE ValueAt(_, _)
ValueAt(v, path) ==
    IF path = <<>> THEN v ELSE ValueAt(v[path[1]], Tail(path))

\* the root value with the field at path replaced (a store through the
\* reflect.Value handle of that field)
RECURSIVE SetAt(_, _, _)
SetAt(v, path, x) ==
    IF path = <<>> THEN x
    ELSE [v EXCEPT ![path[1]] = SetAt(v[path[1]], Tail(path), x)]

\* os.LookupEnv in a process whose first call of Read has cleared the variables
LookupEnv_Consumed(name) ==
    IF name \in DOMAIN environ /\ caller.first = None THEN Some(environ[name]) ELSE None

\* os.LookupEnv
LookupEnv(name) ==
    IF name \in DOMAIN environ THEN Some(environ[name]) ELSE None

\* (*pflag.FlagSet).Lookup: Some(flag) or None (nil)
Lookup(flagSet, name) ==
    IF name \in DOMAIN flagSet THEN Some(flagSet[name]) ELSE None

\* reflect.StructTag.Lookup where only the value is used: "" for an absent tag
TagValue(tag) == IF IsSome(tag) THEN Val(tag) ELSE <<>>

(***************************************************************************)
(* readStructMetadata.  fieldValue is the handle of the field: its path.   *)
(***************************************************************************)
\* envList of a field: the env tag split on ",", each name behind sPrefix
EnvList(f, sPrefix) ==
    IF IsSome(f.env) /\ Len(Val(f.env)) # 0
    THEN LET envList == Split(Val(f.env), DefaultSeparator)
         IN  IF sPrefix # <<>>
             THEN [k \in 1..Len(envList) |-> sPrefix \o envList[k]]
             ELSE envList
    ELSE <<>>

\* the structMeta appended for field number n of the struct at path
StructMeta(f, path, n, sPrefix) ==
    [envList |-> EnvList(f, sPrefix),
     flagName |-> TagValue(f.flag),
     fieldName |-> f.name,
     fieldValue |-> path \o <<n>>,
     defValue |-> f.def,
     separator |-> IF IsSome(f.sep) THEN Val(f.sep) ELSE DefaultSeparator,
     required |-> f.req]

\* CfgNode that forgets the accumulated prefix: only the field's own tag
CfgNode_OwnPrefixOnly(f, path, n, sPrefix) ==
    [Val |-> path \o <<n>>, Prefix |-> TagValue(f.prefix)]

\* the node pushed for a nested structure field
CfgNode(f, path, n, sPrefix) ==
    [Val |-> path \o <<n>>, Prefix |-> sPrefix \o TagValue(f.prefix)]

\* fld.Addr().Interface() panics on a field obtained from an unexported one
AddrInterfacePanics(f) == ~f.exported

\* s.Field(idx).CanSet(): the root is reached through a pointer, so a field
\* is settable exactly when it is exported
CanSet(f) == f.exported

\* ReadTags that puts each structMeta in front of the ones made before
RECURSIVE ReadTags_Prepends(_, _, _, _, _)
ReadTags_Prepends(s, path, sPrefix, n, acc) ==
    IF n > Len(s.fields) THEN acc
    ELSE LET f == s.fields[n]
             nested == f.type.kind = "struct"
         IN  IF nested /\ AddrInterfacePanics(f)
             THEN [acc EXCEPT !.panic = TRUE]
             ELSE LET stack == IF nested
                               THEN Append(acc.stack, CfgNode(f, path, n, sPrefix))
                               ELSE acc.stack
                      metas == IF CanSet(f)
                               THEN <<StructMeta(f, path, n, sPrefix)>> \o acc.metas
                               ELSE acc.metas
                  IN  ReadTags_Prepends(s, path, sPrefix, n + 1,
                                        [acc EXCEPT !.stack = stack, !.metas = metas])

\* the loop "for idx := 0; idx < s.NumField(); idx++" from field n on:
\* acc = [stack, metas, panic]
RECURSIVE ReadTags(_, _, _, _, _)
ReadTags(s, path, sPrefix, n, acc) ==
    IF n > Len(s.fields) THEN acc
    ELSE LET f == s.fields[n]
             nested == f.type.kind = "struct"
         IN  IF nested /\ AddrInterfacePanics(f)
             THEN [acc EXCEPT !.panic = TRUE]
             ELSE LET stack == IF nested
                               THEN Append(acc.stack, CfgNode(f, path, n, sPrefix))
                               ELSE acc.stack
                      metas == IF CanSet(f)
                               THEN Append(acc.metas, StructMeta(f, path, n, sPrefix))
                               ELSE acc.metas
                  IN  ReadTags(s, path, sPrefix, n + 1,
                               [acc EXCEPT !.stack = stack, !.metas = metas])

(***************************************************************************)
(* findDefaultFile and parseFile.                                          *)
(***************************************************************************)
\* filepath.Join(p, name) for clean operands
Join(p, name) ==
    IF p = <<>> THEN name
    ELSE IF p[Len(p)] = "/" THEN p \o name
    ELSE p \o <<"/">> \o name

\* the home directory os.UserHomeDir() returns
Home == <<"/", "h">>

\* the candidate path of directory p and extension ext
FullPath(p, ext) ==
    LET fullPath == Join(p, defaultCfg.Name \o <<".">> \o ext)
    IN  IF HasPrefixAt(fullPath, <<"~", "/">>, 1)
        THEN Join(Home, SubSeq(fullPath, 3, Len(fullPath)))
        ELSE fullPath

\* os.Stat(path) succeeds
Exists(path) == path \in DOMAIN fs

\* findDefaultFile with the loops exchanged: every directory for one extension
\* before the next extension
RECURSIVE findDefaultFileFrom_ExtFirst(_, _)
findDefaultFileFrom_ExtFirst(p, e) ==
    IF e > Len(defaultCfg.Extensions) THEN <<>>
    ELSE IF p > Len(defaultCfg.Paths) THEN findDefaultFileFrom_ExtFirst(1, e + 1)
    ELSE IF Exists(FullPath(defaultCfg.Paths[p], defaultCfg.Extensions[e]))
    THEN FullPath(defaultCfg.Paths[p], defaultCfg.Extensions[e])
    ELSE findDefaultFileFrom_ExtFirst(p + 1, e)

\* the two loops of findDefaultFile from Paths[p], Extensions[e] on
RECURSIVE findDefaultFileFrom(_, _)
findDefaultFileFrom(p, e) ==
    IF p > Len(defaultCfg.Paths) THEN <<>>
    ELSE IF e > Len(defaultCfg.Extensions) THEN findDefaultFileFrom(p + 1, 1)
    ELSE IF Exists(FullPath(defaultCfg.Paths[p], defaultCfg.Extensions[e]))
    THEN FullPath(defaultCfg.Paths[p], defaultCfg.Extensions[e])
    ELSE findDefaultFileFrom(p, e + 1)

findDefaultFile == findDefaultFileFrom(1, 1)

\* strings.ToLower on the letters file extensions are written with
ToLowerChar(c) ==
    CASE c = "Y" -> "y" [] c = "A" -> "a" [] c = "M" -> "m" [] c = "L" -> "l"
      [] c = "J" -> "j" [] c = "S" -> "s" [] c = "O" -> "o" [] c = "N" -> "n"
      [] OTHER -> c

ToLower(s) == [k \in 1..Len(s) |-> ToLowerChar(s[k])]

\* filepath.Ext: from the last "." of the last path element, "" without one
Ext(path) ==
    LET dots == {k \in 1..Len(path) :
                    /\ path[k] = "."
                    /\ \A j \in k..Len(path) : path[j] # "/"}
    IN  IF dots = {} THEN <<>>
        ELSE SubSeq(path, CHOOSE k \in dots : \A j \in dots : k >= j, Len(path))

\* Decode: the assignments of the document stored into the structure (for a
\* malformed document, doc holds what the decoder stores before it fails)
RECURSIVE Decode(_, _)
Decode(doc, v) ==
    IF doc = <<>> THEN v
    ELSE Decode(Tail(doc), SetAt(v, doc[1][1], doc[1][2]))

\* parseFile that hands a file of any other extension to the YAML decoder
parseFile_AnyAsYAML(path, v) ==
    IF ~Exists(path)
    THEN [err |-> Some(Error("FileAccessError", path)), v |-> v]
    ELSE IF fs[path].ok
    THEN [err |-> None, v |-> Decode(fs[path].doc, v)]
    ELSE [err |-> Some(Error("DecodeError", "config file parsing error")),
          v |-> Decode(fs[path].doc, v)]

\* parseFile(path, cfg): [err, v] with v the structure afterwards
parseFile(path, v) ==
    IF ~Exists(path)
    THEN [err |-> Some(Error("FileAccessError", path)), v |-> v]
    ELSE IF ToLower(Ext(path)) \in {<<".", "y", "a", "m", "l">>, <<".", "y", "m", "l">>,
                                    <<".", "j", "s", "o", "n">>}
    THEN IF fs[path].ok
         THEN [err |-> None, v |-> Decode(fs[path].doc, v)]
         ELSE [err |-> Some(Error("DecodeError", "config file parsing error")),
               v |-> Decode(fs[path].doc, v)]
    ELSE [err |-> Some(Error("UnsupportedFormatError", ToLower(Ext(path)))), v |-> v]

(***************************************************************************)
(* readEnvVars, parseFlags, checkRequired: one iteration on one structMeta *)
(***************************************************************************)
FieldType(meta) == TypeAt(cfgT, meta.fieldValue)
FieldOf(meta, v) == ValueAt(v, meta.fieldValue)

\* meta.isFieldValueZero()
isFieldValueZero(meta, v) == isZero(FieldType(meta), FieldOf(meta, v))

\* FirstEnv reading with os.Getenv: a variable set to "" counts as not set
RECURSIVE FirstEnv_SkipsEmpty(_, _)
FirstEnv_SkipsEmpty(envList, n) ==
    IF n > Len(envList) THEN None
    ELSE IF IsSome(LookupEnv(envList[n])) /\ Val(LookupEnv(envList[n])) # <<>>
    THEN LookupEnv(envList[n])
    ELSE FirstEnv_SkipsEmpty(envList, n + 1)

\* the loop over meta.envList from name n on: the first variable that is set
RECURSIVE FirstEnv(_, _)
FirstEnv(envList, n) ==
    IF n > Len(envList) THEN None
    ELSE IF IsSome(LookupEnv(envList[n])) THEN LookupEnv(envList[n])
    ELSE FirstEnv(envList, n + 1)

\* DefaultFallback without the fallback: the declared default is never used
DefaultFallback_Never(raw, meta, v) == raw

\* "if rawValue == nil && meta.isFieldValueZero() { rawValue = meta.defValue }"
DefaultFallback(raw, meta, v) ==
    IF raw = None /\ isFieldValueZero(meta, v) THEN meta.defValue ELSE raw

\* rawValue of readEnvVars for meta
EnvRawValue(meta, v) == DefaultFallback(FirstEnv(meta.envList, 1), meta, v)

\* the test of the else-if of parseFlags for a flag that is not nil
UseFlagDefault(flag, meta, v) ==
    /\ flag.DefValue # <<>>
    /\ \/ isFieldValueZero(meta, v)
       \/ /\ IsSome(meta.defValue)
          /\ ValueString(FieldType(meta), FieldOf(meta, v)) = Val(meta.defValue)

\* FlagValue without the test of flag.Changed: a changed flag counts as unchanged
FlagValue_IgnoresChanged(flagSet, meta, v) ==
    IF meta.flagName # <<>>
    THEN LET flag == Lookup(flagSet, meta.flagName)
         IN  IF IsSome(flag) /\ UseFlagDefault(Val(flag), meta, v)
             THEN Some(Val(flag).DefValue)
             ELSE None
    ELSE None

\* rawValue of parseFlags for meta, before the default fallback
FlagValue(flagSet, meta, v) ==
    IF meta.flagName # <<>>
    THEN LET flag == Lookup(flagSet, meta.flagName)
         IN  IF IsSome(flag) /\ Val(flag).Changed THEN Some(Val(flag).Value)
             ELSE IF IsSome(flag) /\ UseFlagDefault(Val(flag), meta, v)
             THEN Some(Val(flag).DefValue)
             ELSE None
    ELSE None

\* rawValue of parseFlags for meta
FlagRawValue(flagSet, meta, v) == DefaultFallback(FlagValue(flagSet, meta, v), meta, v)

\* the tail of both loops: nothing without a raw value, else parseValue into
\* the field: [err, v] with v the structure afterwards
Apply(raw, meta, v) ==
    IF raw = None THEN [err |-> None, v |-> v]
    ELSE LET r == parseValue(FieldType(meta), FieldOf(meta, v), Val(raw), meta.separator)
         IN  [err |-> r.err, v |-> SetAt(v, meta.fieldValue, r.v)]

\* checkRequired reporting the last zero required field instead of the first
RECURSIVE checkRequired_Last(_, _, _)
checkRequired_Last(metas, n, v) ==
    IF n > Len(metas) THEN None
    ELSE IF checkRequired_Last(metas, n + 1, v) # None
    THEN checkRequired_Last(metas, n + 1, v)
    ELSE IF metas[n].required /\ isFieldValueZero(metas[n], v)
    THEN Some(Error("RequiredFieldError", metas[n].fieldName))
    ELSE None

\* checkRequired from meta n on: the error it returns, None for nil
RECURSIVE checkRequired(_, _, _)
checkRequired(metas, n, v) ==
    IF n > Len(metas) THEN None
    ELSE IF metas[n].required /\ isFieldValueZero(metas[n], v)
    THEN Some(Error("RequiredFieldError", metas[n].fieldName))
    ELSE checkRequired(metas, n + 1, v)

(***************************************************************************)
(* Bounds of the checked instances.                                        *)
(***************************************************************************)
\* most names in one env tag
MaxEnvNames == 2
\* width of the modelled integer fields (int8 / uint8)
IntBits == 8
\* most pieces (elements, pairs) a raw composite value is made of
MaxPieces == 3
\* most directories in DefaultFileConfig.Paths
MaxPaths == 2
\* most extensions in DefaultFileConfig.Extensions
MaxExts == 2
\* longest argument of Unique
MaxLen == 4

(***************************************************************************)
(* The calls that are checked: structure types, environment, flags, file.  *)
(***************************************************************************)
EnvNameOf(n) == <<<<"A">>, <<"B">>, <<"C">>, <<"D">>>>[n]

\* the env tag naming the first n names: "A", "A,B", ...
RECURSIVE EnvTagOf(_)
EnvTagOf(n) ==
    IF n = 1 THEN EnvNameOf(1) ELSE EnvTagOf(n - 1) \o <<",">> \o EnvNameOf(n)

EnvTags == {None} \cup {Some(EnvTagOf(n)) : n \in 1..MaxEnvNames}

\* the raw texts sources supply: "", "0", "1", "2"
ValueTexts == {<<>>, <<"0">>, <<"1">>, <<"2">>}
LeafTypes == {TString, TInt(IntBits), TBool}
\* env-default tags: absent, "", "0", "1" and the text "<int8 Value>"
DefTags ==
    {None, Some(<<>>), Some(<<"0">>), Some(<<"1">>), Some(ValueString(TInt(IntBits), 0))}
FlagName == <<"f">>
FlagTags == {None, Some(FlagName)}
NoDefaultCfg == [Name |-> <<>>, Extensions |-> <<>>, Paths |-> <<>>]
YamlPath == <<"c", ".", "y", "a", "m", "l">>

\* the environments over names: the first name holds any value text, a later
\* name "2"
Environs(names) ==
    UNION {{e \in [D -> ValueTexts] :
                \A n \in D : n # EnvNameOf(1) => e[n] = <<"2">>} :
           D \in SUBSET names}

EnvironsFor(envTag) ==
    IF envTag = None THEN Environs({EnvNameOf(1)})
    ELSE Environs({n \in {EnvNameOf(k) : k \in 1..MaxEnvNames} :
                     \E k \in 1..Len(Split(Val(envTag), <<",">>)) :
                         Split(Val(envTag), <<",">>)[k] = n})

Flag(changed, value, defValue) ==
    [Changed |-> changed, Value |-> value, DefValue |-> defValue]

\* nil, an empty flag set, or a flag set with flag f registered
FlagSetsFor(flagTag) ==
    IF flagTag = None
    THEN {None, Some([n \in {FlagName} |-> Flag(FALSE, <<"1">>, <<"1">>)])}
    ELSE {None, Some(<<>>)}
         \cup {Some([n \in {FlagName} |-> Flag(FALSE, d, d)]) :
                 d \in {<<>>, <<"1">>, <<"2">>}}
         \cup {Some([n \in {FlagName} |-> Flag(TRUE, v, d)]) :
                 v \in {<<>>, <<"0">>, <<"2">>}, d \in {<<>>, <<"1">>}}

\* the values a decoded file gives a field of type t
FileValues(t) ==
    CASE t.kind = "string" -> {<<"1">>, <<"2">>}
      [] t.kind = "int" -> {1, 2}
      [] t.kind = "bool" -> {TRUE}

\* file systems holding a decodable c.yaml that sets the field at path
FilesFor(t, path) ==
    {[n \in {YamlPath} |-> [ok |-> TRUE, doc |-> <<<<path, x>>>>]] : x \in FileValues(t)}

\* the state in which Read starts on a root of type t holding v
StartFrom(t, v, e, fl, fi, dc, fsys) ==
    /\ cfgT = t
    /\ cfg = v
    /\ environ = e
    /\ flags = fl
    /\ file = fi
    /\ defaultCfg = dc
    /\ fs = fsys
    /\ pc = "readStructMetadata"
    /\ cfgStack = <<[Val |-> <<>>, Prefix |-> <<>>]>>
    /\ stackIdx = 1
    /\ metaInfo = <<>>
    /\ metaIdx = 1
    /\ rawValue = None
    /\ err = None
    /\ caller = [file |-> fi, first |-> None]
    /\ stringSlice = <<>>
    /\ list = None

\* the state in which Read starts on a freshly declared (zero) root of type t
Start(t, e, fl, fi, dc, fsys) == StartFrom(t, ZeroValue(t), e, fl, fi, dc, fsys)

\* a structure with the single field X carrying every tag combination
SingleT(t, envTag, defTag, flagTag, req) ==
    TStruct(<<Fld("X", TRUE, t, envTag, defTag, flagTag, None, req, None)>>)

InitSingle ==
    \E t \in LeafTypes, envTag \in EnvTags, defTag \in DefTags,
       flagTag \in FlagTags, req \in BOOLEAN :
        \E e \in EnvironsFor(envTag), fl \in FlagSetsFor(flagTag) :
            \/ Start(SingleT(t, envTag, defTag, flagTag, req), e, fl,
                     <<>>, NoDefaultCfg, <<>>)
            \/ \E fsys \in FilesFor(t, <<1>>) :
                 Start(SingleT(t, envTag, defTag, flagTag, req), e, fl,
                       YamlPath, NoDefaultCfg, fsys)

\* all environments that set some of names, each to "1"
SetSome(names) == UNION {[D -> {<<"1">>}] : D \in SUBSET names}

\* a field without tags
Plain(name, exported, t) == Fld(name, exported, t, None, None, None, None, FALSE, None)

\* a field with an env tag only
EnvFld(name, t, envTag, req) ==
    Fld(name, TRUE, t, Some(envTag), None, None, None, req, None)

\* Root{P `env:"A"`; Sub S; Y `env:"B" flag:"f"`}, S{Z `env:"C"`}: three
\* leaves of which any may be required, extracted in the order P, Sub, Y, Z
OrderT(rp, ry, rz) ==
    TStruct(<<EnvFld("P", TString, EnvNameOf(1), rp),
              Plain("Sub", TRUE, TStruct(<<EnvFld("Z", TInt(IntBits), EnvNameOf(3), rz)>>)),
              Fld("Y", TRUE, TString, Some(EnvNameOf(2)), None, Some(FlagName),
                  None, ry, None)>>)

InitOrder ==
    \E rp \in BOOLEAN, ry \in BOOLEAN, rz \in BOOLEAN :
        \E e \in SetSome({EnvNameOf(1), EnvNameOf(2), EnvNameOf(3)}),
           fl \in {None, Some([n \in {FlagName} |-> Flag(TRUE, <<"2">>, <<>>)])} :
            Start(OrderT(rp, ry, rz), e, fl, <<>>, NoDefaultCfg, <<>>)

\* the structures of TestReadFromEnvWithPrefix:
\* Config{Default DBConfig `env-prefix:p0`; ReadOnly DBConfig `env-prefix:"R_"`},
\* DBConfig{Host string `env:"H,I"`; Logging Logging `env-prefix:p2`},
\* Logging{Debug bool `env:"G"`}
LoggingT == TStruct(<<EnvFld("Debug", TBool, <<"G">>, FALSE)>>)

DBConfigT(p2) ==
    TStruct(<<EnvFld("Host", TString, <<"H", ",", "I">>, FALSE),
              Fld("Logging", TRUE, LoggingT, None, None, None, None, FALSE, p2)>>)

ConfigT(p0, p2) ==
    TStruct(<<Fld("Default", TRUE, DBConfigT(p2), None, None, None, None, FALSE, p0),
              Fld("ReadOnly", TRUE, DBConfigT(p2), None, None, None, None, FALSE,
                  Some(<<"R", "_">>))>>)

PrefixEnvNames ==
    {<<"H">>, <<"I">>, <<"G">>, <<"R", "_", "H">>, <<"R", "_", "I">>,
     <<"D", "_", "G">>, <<"R", "_", "D", "_", "G">>, <<"D", "_", "R", "_", "G">>}

InitPrefix ==
    \E p0 \in {None, Some(<<>>)}, p2 \in {None, Some(<<"D", "_">>)} :
        \E e \in SetSome(PrefixEnvNames) :
            Start(ConfigT(p0, p2), e, None, <<>>, NoDefaultCfg, <<>>)

\* Root{Empty int8; <first> t `env:"A" env-default:"1" flag:"f"`;
\*      Global int8 `env:"B" env-default:"1"`} where the field <first> is exported
\* or not and of a leaf, pointer or structure type, required or not
FirstT(exported, t, req) ==
    TStruct(<<Plain("Empty", TRUE, TInt(IntBits)),
              Fld("first", exported, t, Some(EnvNameOf(1)), Some(<<"1">>),
                  Some(FlagName), None, req, None),
              Fld("Global", TRUE, TInt(IntBits), Some(EnvNameOf(2)), Some(<<"1">>),
                  None, None, FALSE, None)>>)

InitFirst ==
    \E exported \in BOOLEAN, t \in {TInt(IntBits), TString, TPtr, LoggingT},
       req \in BOOLEAN :
        \E e \in SetSome({EnvNameOf(1), EnvNameOf(2), <<"G">>}),
           fl \in {None, Some([n \in {FlagName} |-> Flag(TRUE, <<"2">>, <<>>)])} :
            Start(FirstT(exported, t, req), e, fl, <<>>, NoDefaultCfg, <<>>)

\* Root{Sub Logging <tags>}: an exported nested structure that carries field tags
SubT(envTag, defTag, req) ==
    TStruct(<<Fld("Sub", TRUE, LoggingT, envTag, defTag, None, None, req, None)>>)

InitSub ==
    \E envTag \in {None, Some(EnvNameOf(1))}, defTag \in {None, Some(<<"1">>)},
       req \in BOOLEAN :
        \E e \in SetSome({EnvNameOf(1), <<"G">>}) :
            Start(SubT(envTag, defTag, req), e, None, <<>>, NoDefaultCfg, <<>>)

\* the text of pieces joined by j (the raw value of a composite field)
RECURSIVE JoinWith(_, _)
JoinWith(pieces, j) ==
    IF Len(pieces) = 1 THEN pieces[1]
    ELSE pieces[1] \o j \o JoinWith(Tail(pieces), j)

\* the raw values made of at most MaxPieces pieces of P, joined by "," or " "
RawTexts(P) ==
    {JoinWith(ps, j) : ps \in UNION {[1..k -> P] : k \in 1..MaxPieces},
                       j \in {<<",">>, <<" ">>}}

\* pieces of sequence values: "", " ", "1", "2", "3", "a"
SlicePieces == {<<>>, <<" ">>, <<"1">>, <<"2">>, <<"3">>, <<"a">>}
\* pieces of mapping values: "", "a", "a:1", "a:2", "b:2", "a:b:1"
MapPieces ==
    {<<>>, <<"a">>, <<"a", ":", "1">>, <<"a", ":", "2">>, <<"b", ":", "2">>,
     <<"a", ":", "b", ":", "1">>}

\* []int8, []string, []uint8 ([]byte), [][]int8
SliceTypes ==
    {TSlice(TInt(IntBits)), TSlice(TString), TSlice(TUint(8)),
     TSlice(TSlice(TInt(IntBits)))}
\* map[string]int8, map[string]string
MapTypes == {TMap(TString, TInt(IntBits)), TMap(TString, TString)}

\* Root{X t `env:"A" flag:"f" env-separator:sepTag`}
CompositeT(t, sepTag) ==
    TStruct(<<Fld("X", TRUE, t, Some(EnvNameOf(1)), None, Some(FlagName), sepTag,
                  FALSE, None)>>)

\* int8 and bool: the kinds whose coercion is a strconv call that can fail
ScalarTypes == {TInt(IntBits), TBool}

\* a raw value every separator and every one of these types coerces
PriorRaw(t) == IF t.kind = "map" THEN <<"a", ":", "1">> ELSE <<"1">>

\* the raw value of the field X comes from the environment variable A, or
\* from the flag f the caller has changed, the variable A then being unset or
\* holding a value that coerces
InitCoerce ==
    \E t \in SliceTypes \cup MapTypes \cup ScalarTypes, sepTag \in {None, Some(<<" ">>)} :
        \E raw \in RawTexts(IF t.kind = "map" THEN MapPieces ELSE SlicePieces) :
            \/ Start(CompositeT(t, sepTag), [n \in {EnvNameOf(1)} |-> raw], None,
                     <<>>, NoDefaultCfg, <<>>)
            \/ \E e \in {<<>>, [n \in {EnvNameOf(1)} |-> PriorRaw(t)]} :
                 Start(CompositeT(t, sepTag), e,
                       Some([n \in {FlagName} |-> Flag(TRUE, raw, <<>>)]),
                       <<>>, NoDefaultCfg, <<>>)

\* roots that are no structure behind one pointer: an int8 holding 42, a
\* string, a pointer (the root is a pointer to a pointer) and a slice
ShapeRoots ==
    {<<TInt(IntBits), 42>>, <<TString, <<"1">>>>, <<TPtr, ZeroValue(TPtr)>>,
     <<TSlice(TString), ZeroValue(TSlice(TString))>>}

\* Read on such a root, with a variable set, flags and a file that would
\* replace the root's value were it decoded
InitShape ==
    \E r \in ShapeRoots :
        \E e \in SetSome({EnvNameOf(1)}),
           fl \in {None, Some([n \in {FlagName} |-> Flag(TRUE, <<"2">>, <<>>)])},
           fi \in {<<>>, YamlPath} :
            StartFrom(r[1], r[2], e, fl, fi, NoDefaultCfg,
                      [n \in {YamlPath} |->
                          [ok |-> TRUE, doc |-> <<<<<<>>, ZeroValue(r[1])>>>>]])

\* Root{X int8 `env:"A" flag:"f" env-required:"true"`}: the structure read in
\* the calls that look at the file layer
FileT == SingleT(TInt(IntBits), Some(EnvNameOf(1)), None, Some(FlagName), TRUE)

\* the environment and the flags of those calls: nothing, A = "1", or the
\* changed flag f = "2"
FileCallSources ==
    {<<<<>>, None>>, <<[n \in {EnvNameOf(1)} |-> <<"1">>], None>>,
     <<<<>>, Some([n \in {FlagName} |-> Flag(TRUE, <<"2">>, <<>>)])>>}

\* the directories and extensions of a DefaultFileConfig named "c"
DefaultDirs == {<<"/", "a">>, <<"~">>}
DefaultExts == {<<"y", "a", "m", "l">>, <<"j", "s", "o", "n">>}
\* the files the candidates can name, in a fixed order, and an explicit file
DefaultFiles ==
    <<<<"/", "a", "/", "c", ".", "y", "a", "m", "l">>, <<"/", "a", "/", "c", ".", "j", "s", "o", "n">>, <<"/", "h", "/", "c", ".", "y", "a", "m", "l">>, <<"/", "h", "/", "c", ".", "j", "s", "o", "n">>>>
ExplicitPath == <<"/", "x", ".", "y", "a", "m", "l">>

\* a decodable file that sets X to x
FileSetting(x) == [ok |-> TRUE, doc |-> <<<<<<1>>, x>>>>]

\* the file systems that hold ExplicitPath and some of DefaultFiles, file
\* number k setting X to k and ExplicitPath setting X to 9
DefaultFileSystems ==
    {[n \in {DefaultFiles[k] : k \in K} \cup {ExplicitPath} |->
         IF n = ExplicitPath THEN FileSetting(9)
         ELSE FileSetting(CHOOSE k \in K : DefaultFiles[k] = n)] :
     K \in SUBSET (1..Len(DefaultFiles))}

\* Read with a DefaultFileConfig, without or with an explicit file
InitDefault ==
    \E ps \in UNION {[1..k -> DefaultDirs] : k \in 0..MaxPaths},
       es \in UNION {[1..k -> DefaultExts] : k \in 0..MaxExts},
       fsys \in DefaultFileSystems, src \in FileCallSources,
       fi \in {<<>>, ExplicitPath} :
        Start(FileT, src[1], src[2], fi,
              [Name |-> <<"c">>, Extensions |-> es, Paths |-> ps], fsys)

\* explicit paths with and without a known extension
FormatPaths ==
    {<<"/", "x", ".", "t", "x", "t">>, <<"/", "x">>, <<"/", "x", ".", "Y", "A", "M", "L">>, <<"/", "x", ".", "y", "m", "l">>,
     <<"/", "x", ".", "j", "s", "o", "n">>, <<"/", "x", ".", "y", "a", "m", "l", ".", "b", "a", "k">>, <<"/", "d", ".", "y", "a", "m", "l", "/", "x">>,
     <<"/", "x", ".", "y", "a", "m", "l">>}

\* Read with an explicit file that is missing, decodable (X := 9) or
\* malformed after the decoder has stored X := 9
InitFormat ==
    \E fi \in FormatPaths, src \in FileCallSources :
        \E fsys \in {<<>>} \cup {[n \in {fi} |-> [ok |-> ok, doc |-> <<<<<<1>>, 9>>>>]] :
                                   ok \in BOOLEAN} :
            Start(FileT, src[1], src[2], fi, NoDefaultCfg, fsys)

InitFile == InitDefault \/ InitFormat

\* Root{P string `env-default:"1"`; Q int8 `env:"B" flag:"f"`;
\*      R string `env:"C" flag:"g" env-required:"true"`}
AbortT ==
    TStruct(<<Fld("P", TRUE, TString, None, Some(<<"1">>), None, None, FALSE, None),
              Fld("Q", TRUE, TInt(IntBits), Some(EnvNameOf(2)), None, Some(FlagName),
                  None, FALSE, None),
              Fld("R", TRUE, TString, Some(EnvNameOf(3)), None, Some(<<"g">>),
                  None, TRUE, None)>>)

\* the files of the calls on AbortT: none, a missing one, a decodable one that
\* sets Q := 5, a malformed one of which Q := 5 is stored, and one of an
\* unknown format
AbortFiles ==
    {<<<<>>, <<>>>>, <<YamlPath, <<>>>>,
     <<YamlPath, [n \in {YamlPath} |-> [ok |-> TRUE, doc |-> <<<<<<2>>, 5>>>>]]>>,
     <<YamlPath, [n \in {YamlPath} |-> [ok |-> FALSE, doc |-> <<<<<<2>>, 5>>>>]]>>,
     <<<<"/", "x", ".", "t", "x", "t">>, [n \in {<<"/", "x", ".", "t", "x", "t">>} |-> [ok |-> TRUE, doc |-> <<<<<<2>>, 5>>>>]]>>}

\* Read on AbortT: B unset, "1" or the text "x" no integer can be read from,
\* C unset or "1", and no flags or the flag g changed to "3" with f unchanged
\* or changed to "2" or to "x"
InitAbort ==
    \E fi \in AbortFiles,
       b \in {None, Some(<<"1">>), Some(<<"x">>)}, c \in {None, Some(<<"1">>)},
       fl \in {None}
              \cup {Some([n \in {FlagName, <<"g">>} |->
                            IF n = FlagName THEN f ELSE Flag(TRUE, <<"3">>, <<>>)]) :
                      f \in {Flag(FALSE, <<>>, <<>>), Flag(TRUE, <<"2">>, <<>>),
                             Flag(TRUE, <<"x">>, <<>>)}} :
        Start(AbortT,
              [n \in (IF b = None THEN {} ELSE {EnvNameOf(2)})
                      \cup (IF c = None THEN {} ELSE {EnvNameOf(3)}) |->
                  IF n = EnvNameOf(2) THEN Val(b) ELSE Val(c)],
              fl, fi[1], NoDefaultCfg, fi[2])

\* Root{First Sub `env-prefix:p1`; Second Sub `env-prefix:"P_"`;
\*      Y int8 `env:y`}, Sub{Z int8 `env:"C"`}: with p1 = "P_" the two Z, and
\* with y = "P_C" also Y, are read from the one variable P_C
CollideT(p1, y) ==
    TStruct(<<Fld("First", TRUE, TStruct(<<EnvFld("Z", TInt(IntBits), <<"C">>, FALSE)>>),
                  None, None, None, None, FALSE, Some(p1)),
              Fld("Second", TRUE, TStruct(<<EnvFld("Z", TInt(IntBits), <<"C">>, FALSE)>>),
                  None, None, None, None, FALSE, Some(<<"P", "_">>)),
              EnvFld("Y", TInt(IntBits), y, FALSE)>>)

InitCollide ==
    \E p1 \in {<<"P", "_">>, <<"Q", "_">>}, y \in {<<"P", "_", "C">>, <<"Y">>} :
        \E K \in SUBSET {<<"P", "_", "C">>, <<"Q", "_", "C">>} :
            Start(CollideT(p1, y), [n \in K |-> IF n = <<"P", "_", "C">> THEN <<"1">> ELSE <<"2">>],
                  None, <<>>, NoDefaultCfg, <<>>)

(***************************************************************************)
(* The steps of Read.                                                      *)
(***************************************************************************)
\* a return that records the error and lets Read go on where it is
Return_GoesOn(e) == pc' = pc /\ err' = e

\* Read returns e
Return(e) == pc' = "done" /\ err' = e

\* readStructMetadataStep without "if s.Kind() != reflect.Struct"
readStructMetadataStep_NoShapeCheck ==
    /\ pc = "readStructMetadata"
    /\ LET s == TypeAt(cfgT, cfgStack[stackIdx].Val)
           r == ReadTags(s, cfgStack[stackIdx].Val, cfgStack[stackIdx].Prefix, 1,
                         [stack |-> cfgStack, metas |-> metaInfo, panic |-> FALSE])
       IN  /\ cfgStack' = r.stack
           /\ metaInfo' = r.metas
           /\ stackIdx' = stackIdx + 1
           /\ pc' = IF stackIdx + 1 > Len(r.stack) THEN "findDefaultFile" ELSE pc
           /\ UNCHANGED err
    /\ UNCHANGED <<outside, inputs, cfg, metaIdx, rawValue>>

\* one turn of the loop of readStructMetadata over cfgStack; after the last
\* node Read goes on to the file
readStructMetadataStep ==
    /\ pc = "readStructMetadata"
    /\ LET s == TypeAt(cfgT, cfgStack[stackIdx].Val)
       IN  IF s.kind # "struct"
           THEN /\ Return(Some(Error("ShapeError", s.kind)))
                /\ UNCHANGED <<cfgStack, stackIdx, metaInfo>>
           ELSE LET r == ReadTags(s, cfgStack[stackIdx].Val, cfgStack[stackIdx].Prefix, 1,
                                  [stack |-> cfgStack, metas |-> metaInfo, panic |-> FALSE])
                IN  IF r.panic
                    THEN /\ pc' = "panic"
                         /\ UNCHANGED <<cfgStack, stackIdx, metaInfo, err>>
                    ELSE /\ cfgStack' = r.stack
                         /\ metaInfo' = r.metas
                         /\ stackIdx' = stackIdx + 1
                         /\ pc' = IF stackIdx + 1 > Len(r.stack)
                                  THEN "findDefaultFile" ELSE pc
                         /\ UNCHANGED err
    /\ UNCHANGED <<outside, inputs, cfg, metaIdx, rawValue>>

\* "if file == "" { file = findDefaultFile(defaultCfg) }"
findDefaultFileStep ==
    /\ pc = "findDefaultFile"
    /\ file' = IF file = <<>> THEN findDefaultFile ELSE file
    /\ pc' = "parseFile"
    /\ UNCHANGED <<outside, cfgT, cfg, environ, flags, defaultCfg, fs, cfgStack, stackIdx,
                   metaInfo, metaIdx, rawValue, err>>

\* "if file != "" { err = parseFile(file, cfg) ... }"
parseFileStep ==
    /\ pc = "parseFile"
    /\ IF file = <<>>
       THEN /\ pc' = "readEnvVars"
            /\ UNCHANGED <<cfg, err>>
       ELSE LET r == parseFile(file, cfg)
            IN  /\ cfg' = r.v
                /\ IF IsSome(r.err) THEN Return(r.err)
                   ELSE pc' = "readEnvVars" /\ UNCHANGED err
    /\ UNCHANGED <<outside, inputs, cfgStack, stackIdx, metaInfo, metaIdx, rawValue>>

\* readEnvVarsStep that passes a descriptor by when a later descriptor has
\* the same environment names
readEnvVarsStep_LaterWins ==
    /\ pc = "readEnvVars"
    /\ metaIdx <= Len(metaInfo)
    /\ LET meta == metaInfo[metaIdx]
           raw == IF /\ meta.envList # <<>>
                     /\ \E j \in (metaIdx + 1)..Len(metaInfo) :
                           metaInfo[j].envList = meta.envList
                  THEN None
                  ELSE EnvRawValue(meta, cfg)
           r == Apply(raw, meta, cfg)
       IN  /\ rawValue' = raw
           /\ cfg' = r.v
           /\ IF IsSome(r.err)
              THEN Return(r.err) /\ UNCHANGED metaIdx
              ELSE metaIdx' = metaIdx + 1 /\ UNCHANGED <<pc, err>>
    /\ UNCHANGED <<outside, inputs, cfgStack, stackIdx, metaInfo>>

\* one iteration of the loop of readEnvVars
readEnvVarsStep ==
    /\ pc = "readEnvVars"
    /\ metaIdx <= Len(metaInfo)
    /\ LET meta == metaInfo[metaIdx]
           raw == EnvRawValue(meta, cfg)
           r == Apply(raw, meta, cfg)
       IN  /\ rawValue' = raw
           /\ cfg' = r.v
           /\ IF IsSome(r.err)
              THEN Return(r.err) /\ UNCHANGED metaIdx
              ELSE metaIdx' = metaIdx + 1 /\ UNCHANGED <<pc, err>>
    /\ UNCHANGED <<outside, inputs, cfgStack, stackIdx, metaInfo>>

\* readEnvVars returns nil: "if flags != nil { parseFlags } ..."
readEnvVarsReturn ==
    /\ pc = "readEnvVars"
    /\ metaIdx > Len(metaInfo)
    /\ pc' = IF flags # None THEN "parseFlags" ELSE "checkRequired"
    /\ metaIdx' = 1
    /\ UNCHANGED <<outside, inputs, cfg, cfgStack, stackIdx, metaInfo, rawValue, err>>

\* one iteration of the loop of parseFlags
parseFlagsStep ==
    /\ pc = "parseFlags"
    /\ metaIdx <= Len(metaInfo)
    /\ LET meta == metaInfo[metaIdx]
           raw == FlagRawValue(Val(flags), meta, cfg)
           r == Apply(raw, meta, cfg)
       IN  /\ rawValue' = raw
           /\ cfg' = r.v
           /\ IF IsSome(r.err)
              THEN Return(r.err) /\ UNCHANGED metaIdx
              ELSE metaIdx' = metaIdx + 1 /\ UNCHANGED <<pc, err>>
    /\ UNCHANGED <<outside, inputs, cfgStack, stackIdx, metaInfo>>

\* parseFlags returns nil
parseFlagsReturn ==
    /\ pc = "parseFlags"
    /\ metaIdx > Len(metaInfo)
    /\ pc' = "checkRequired"
    /\ metaIdx' = 1
    /\ UNCHANGED <<outside, inputs, cfg, cfgStack, stackIdx, metaInfo, rawValue, err>>

\* "return checkRequired(metaInfo)"
checkRequiredStep ==
    /\ pc = "checkRequired"
    /\ Return(checkRequired(metaInfo, 1, cfg))
    /\ UNCHANGED <<outside, inputs, cfg, cfgStack, stackIdx, metaInfo, metaIdx, rawValue>>

\* the caller keeps what its first call of Read gave and calls Read again: the
\* same arguments, file, environment and flags, and a second, freshly declared
\* root of the same type
ReadAgainStep ==
    /\ pc = "done"
    /\ caller.first = None
    /\ caller' = [caller EXCEPT !.first = Some([cfg |-> cfg, err |-> err])]
    /\ cfg' = ZeroValue(cfgT)
    /\ file' = caller.file
    /\ pc' = "readStructMetadata"
    /\ cfgStack' = <<[Val |-> <<>>, Prefix |-> <<>>]>>
    /\ stackIdx' = 1
    /\ metaInfo' = <<>>
    /\ metaIdx' = 1
    /\ rawValue' = None
    /\ err' = None
    /\ UNCHANGED <<cfgT, environ, flags, defaultCfg, fs, stringSlice, list>>

Init ==
    InitSingle \/ InitOrder \/ InitPrefix \/ InitFirst \/ InitSub \/ InitShape
        \/ InitAbort \/ InitCollide

Next ==
    \/ readStructMetadataStep
    \/ findDefaultFileStep
    \/ parseFileStep
    \/ readEnvVarsStep
    \/ readEnvVarsReturn
    \/ parseFlagsStep
    \/ parseFlagsReturn
    \/ checkRequiredStep

Spec == Init /\ [][Next]_vars

\* Read on a structure with one sequence or mapping field
SpecCoerce == InitCoerce /\ [][Next]_vars

(***************************************************************************)
(* Unique.  A []string is [isNil, elems]; keys is the set of the map's keys.*)
(***************************************************************************)
\* the loop of Unique that never records a key
RECURSIVE UniqueFrom_NoKeys(_, _, _)
UniqueFrom_NoKeys(rest, keys, acc) ==
    IF rest = <<>> THEN acc
    ELSE UniqueFrom_NoKeys(Tail(rest), keys, Append(acc, Head(rest)))

\* the loop "for _, entry := range stringSlice" over the entries still to come
RECURSIVE UniqueFrom(_, _, _)
UniqueFrom(rest, keys, acc) ==
    IF rest = <<>> THEN acc
    ELSE IF Head(rest) \in keys
    THEN UniqueFrom(Tail(rest), keys, acc)
    ELSE UniqueFrom(Tail(rest), keys \cup {Head(rest)}, Append(acc, Head(rest)))

Unique(sl) == [isNil |-> FALSE, elems |-> UniqueFrom(sl.elems, {}, <<>>)]

\* the arguments: nil, and the slices of at most MaxLen of the strings "", "a", "b"
UniqueArgs ==
    {[isNil |-> TRUE, elems |-> <<>>]}
        \cup {[isNil |-> FALSE, elems |-> e] :
                e \in UNION {[1..k -> {"", "a", "b"}] : k \in 0..MaxLen}}

\* no call of Read is under way; Unique is about to be called on an argument
InitUnique ==
    /\ stringSlice \in UniqueArgs
    /\ list = None
    /\ cfgT = TStruct(<<>>) /\ cfg = <<>>
    /\ environ = <<>> /\ flags = None /\ file = <<>>
    /\ defaultCfg = NoDefaultCfg /\ fs = <<>>
    /\ pc = "done"
    /\ cfgStack = <<>> /\ stackIdx = 1 /\ metaInfo = <<>> /\ metaIdx = 1
    /\ rawValue = None /\ err = None
    /\ caller = [file |-> <<>>, first |-> None]

\* list := Unique(stringSlice)
UniqueStep ==
    /\ list = None
    /\ list' = Some(Unique(stringSlice))
    /\ UNCHANGED <<inputs, stringSlice, cfg, pc, cfgStack, stackIdx, metaInfo, metaIdx,
                   rawValue, err, caller>>

\* Unique is called on the result of the call before
UniqueAgainStep ==
    /\ list # None
    /\ stringSlice' = Val(list)
    /\ list' = Some(Unique(Val(list)))
    /\ UNCHANGED <<inputs, cfg, pc, cfgStack, stackIdx, metaInfo, metaIdx, rawValue,
                   err, caller>>

NextUnique == UniqueStep \/ UniqueAgainStep

SpecUnique == InitUnique /\ [][NextUnique]_vars

\* Read with default-file configurations and explicit files of all formats
SpecFile == InitFile /\ [][Next]_vars

\* Read on the structures with nested structures; every step that is possible
\* is taken in the end (Read is a sequential function that runs on)
InitExtract == InitOrder \/ InitPrefix \/ InitFirst \/ InitSub
SpecExtract == InitExtract /\ [][Next]_vars /\ WF_vars(Next)

\* Read called twice by one caller
InitTwice == InitSingle \/ InitFirst \/ InitFile
NextTwice == Next \/ ReadAgainStep
SpecTwice == InitTwice /\ [][NextTwice]_vars

(***************************************************************************)
(* Vocabulary of the properties.                                           *)
(***************************************************************************)
\* Read has returned nil
Succeeded == pc = "done" /\ err = None

\* Read has returned the error of that kind
FailedWith(kind) == pc = "done" /\ err # None /\ Val(err).kind = kind

\* the call is on the single-field structure Root{X}
IsSingle == Len(cfgT.fields) = 1 /\ cfgT.fields[1].name = "X"

\* the declaration, the type and the present value of Root.X
XDecl == cfgT.fields[1]
XType == cfgT.fields[1].type
XValue == cfg[1]

\* what a text is coerced to for a field of type t
Coerced(t, text) == parseValue(t, ZeroValue(t), text, DefaultSeparator).v
Coercible(t, text) == parseValue(t, ZeroValue(t), text, DefaultSeparator).err = None

\* the positions of the names of an env list that are set in the environment
SetPositions(envList) == {k \in 1..Len(envList) : envList[k] \in DOMAIN environ}

\* some name of the list is set, and the value of the first of them
EnvIsSet(envList) == SetPositions(envList) # {}
EnvValue(envList) ==
    environ[envList[CHOOSE k \in SetPositions(envList) :
                        \A j \in SetPositions(envList) : k <= j]]

\* X has a file key, an env name, a registered flag and a declared default
HasAllSources ==
    /\ IsSingle
    /\ IsSome(XDecl.env) /\ IsSome(XDecl.def) /\ IsSome(XDecl.flag)
    /\ flags # None /\ FlagName \in DOMAIN Val(flags)

XFlag == Val(flags)[FlagName]
XEnvList == metaInfo[1].envList
FileSupplies == file # <<>>
FileValue == fs[file].doc[1][2]

\* the value of X after the file and the environment layer: E, else F, else
\* the declared default
AfterEnv ==
    IF EnvIsSet(XEnvList) THEN Coerced(XType, EnvValue(XEnvList))
    ELSE IF FileSupplies THEN FileValue
    ELSE Coerced(XType, Val(XDecl.def))

\* the text Value.String() gives: the value of a string, else a placeholder
\* "<T Value>" that names only the type
TextOf(t, v) ==
    IF t.kind = "string" THEN v
    ELSE <<"<">> \o TypeName(t) \o <<" ", "V", "a", "l", "u", "e", ">">>

ZeroRequired(v) ==
    {k \in 1..Len(metaInfo) : metaInfo[k].required /\ isFieldValueZero(metaInfo[k], v)}
Least(S) == CHOOSE k \in S : \A j \in S : k <= j

\* C2: Read returns nil only with every required descriptor's field non-zero,
\* and the required check, reached when all layers completed without error,
\* returns RequiredFieldError naming the first required descriptor (extraction
\* order) whose field is zero in the final structure, nil when there is none:
\* it reads the final state only
C2_Required ==
    /\ [](Succeeded => ZeroRequired(cfg) = {})
    /\ [][pc = "checkRequired" =>
            /\ pc' = "done"
            /\ cfg' = cfg
            /\ err' = IF ZeroRequired(cfg) = {} THEN None
                      ELSE Some(Error("RequiredFieldError",
                                      metaInfo[Least(ZeroRequired(cfg))].fieldName))]_vars

\* a required field without default, file or environment value, hence zero
\* after the file and environment layers, that the changed flag fills: Read
\* returns nil
C2_Witness ==
    /\ Succeeded /\ IsSingle /\ XDecl.req
    /\ XDecl.def = None /\ file = <<>> /\ ~EnvIsSet(XEnvList)
    /\ flags # None /\ IsSome(XDecl.flag) /\ FlagName \in DOMAIN Val(flags)
    /\ XFlag.Changed
    /\ ~isZero(XType, XValue)

\* no source gives X a value: no file, no environment variable, and no flag
\* value or non-empty flag default
NoSourceValue ==
    /\ ~EnvIsSet(XEnvList)
    /\ file = <<>>
    /\ \/ flags = None
       \/ XDecl.flag = None
       \/ FlagName \notin DOMAIN Val(flags)
       \/ ~XFlag.Changed /\ XFlag.DefValue = <<>>

\* C3 as stated: required and no value from any source: RequiredFieldError
\* without a declared default, success with one, whatever its text
C3_RequiredLaw_AsStated ==
    (pc = "done" /\ IsSingle /\ XDecl.req /\ NoSourceValue) =>
        IF XDecl.def = None THEN FailedWith("RequiredFieldError") ELSE Succeeded

\* C3 (amended): required and no value from any source: RequiredFieldError
\* without a declared default; with one, success exactly when its text coerces
\* to a non-zero value, RequiredFieldError when it coerces to the zero value,
\* and the coercion error when it does not coerce
C3_RequiredLaw ==
    (pc = "done" /\ IsSingle /\ XDecl.req /\ NoSourceValue) =>
        IF XDecl.def = None THEN FailedWith("RequiredFieldError")
        ELSE IF ~Coercible(XType, Val(XDecl.def)) THEN FailedWith("CoercionError")
        ELSE IF isZero(XType, Coerced(XType, Val(XDecl.def)))
        THEN FailedWith("RequiredFieldError")
        ELSE Succeeded

\* a required field that only its declared default "1" fills: Read returns nil
C3_Witness ==
    /\ Succeeded /\ IsSingle /\ XDecl.req /\ NoSourceValue
    /\ XDecl.def = Some(<<"1">>)
    /\ XValue = Coerced(XType, <<"1">>)

\* C4: an iteration of the environment reader takes as raw value the value of
\* the first name of envNames that is set (set to "" counts), else the declared
\* default when the field is zero, else none; without a raw value the
\* field is left untouched, with one the field is coerced from it
C4_EnvReader ==
    [][(pc = "readEnvVars" /\ metaIdx <= Len(metaInfo)) =>
        LET meta == metaInfo[metaIdx]
            expected == IF EnvIsSet(meta.envList) THEN Some(EnvValue(meta.envList))
                        ELSE IF isFieldValueZero(meta, cfg) THEN meta.defValue
                        ELSE None
        IN  /\ rawValue' = expected
            /\ expected = None => (cfg' = cfg /\ err' = None)
            /\ (expected # None /\ err' = None) =>
                   cfg' = SetAt(cfg, meta.fieldValue,
                                parseValue(FieldType(meta), FieldOf(meta, cfg),
                                           Val(expected), meta.separator).v)
       ]_vars

\* the first of two names is set to "", the second to "2", the default is "1":
\* the raw value is "" and the string field stays empty
C4_Witness ==
    /\ pc = "readEnvVars" /\ metaIdx = 2 /\ IsSingle
    /\ XType.kind = "string"
    /\ Len(XEnvList) = 2
    /\ XEnvList[1] \in DOMAIN environ /\ environ[XEnvList[1]] = <<>>
    /\ XEnvList[2] \in DOMAIN environ
    /\ XDecl.def = Some(<<"1">>)
    /\ rawValue = Some(<<>>)
    /\ XValue = <<>>

\* C5 as stated: an iteration of the flag reader on a descriptor whose flag is
\* registered takes the flag's value if it was changed, else the flag's
\* non-empty declared default if the field is zero or still holds the value of
\* its env-default, else the env-default if the field is zero, for every kind
C5_FlagReader_AsStated ==
    [][(/\ pc = "parseFlags" /\ metaIdx <= Len(metaInfo)
        /\ metaInfo[metaIdx].flagName # <<>>
        /\ metaInfo[metaIdx].flagName \in DOMAIN Val(flags)) =>
        LET meta == metaInfo[metaIdx]
            t == FieldType(meta)
            flag == Val(flags)[meta.flagName]
            zero == isFieldValueZero(meta, cfg)
            stillDefault == /\ IsSome(meta.defValue)
                            /\ Coercible(t, Val(meta.defValue))
                            /\ FieldOf(meta, cfg) = Coerced(t, Val(meta.defValue))
            expected == IF flag.Changed THEN Some(flag.Value)
                        ELSE IF flag.DefValue # <<>> /\ (zero \/ stillDefault)
                        THEN Some(flag.DefValue)
                        ELSE IF zero THEN meta.defValue
                        ELSE None
            r == parseValue(t, FieldOf(meta, cfg), Val(expected), meta.separator)
        IN  IF expected = None THEN cfg' = cfg /\ err' = None
            ELSE cfg' = SetAt(cfg, meta.fieldValue, r.v) /\ err' = r.err
       ]_vars

\* the declaration of the field at a path from the root
RECURSIVE DeclAt(_, _)
DeclAt(t, path) ==
    IF Len(path) = 1 THEN t.fields[path[1]]
    ELSE DeclAt(t.fields[path[1]].type, Tail(path))

\* the env-prefix tags of the ancestors of the field at path, outer to inner,
\* concatenated
RECURSIVE AncestorPrefix(_, _)
AncestorPrefix(path, k) ==
    IF k >= Len(path) THEN <<>>
    ELSE TagValue(DeclAt(cfgT, SubSeq(path, 1, k)).prefix) \o AncestorPrefix(path, k + 1)

\* the names a field declares in its env tag
DeclaredNames(f) ==
    IF IsSome(f.env) /\ Val(f.env) # <<>> THEN Split(Val(f.env), <<",">>) ELSE <<>>

\* the call is on Config{Default, ReadOnly} of TestReadFromEnvWithPrefix
IsPrefixCall == Len(cfgT.fields) = 2 /\ cfgT.fields[2].name = "ReadOnly"
LoggingPrefix == TagValue(cfgT.fields[2].type.fields[2].prefix)
ReadOnlyDebugName == <<"R", "_">> \o LoggingPrefix \o <<"G">>

\* C6: every environment name of every descriptor is the concatenation of the
\* env-prefix tags of the field's ancestors, outer to inner (nothing for an
\* ancestor without the tag), followed by the declared name, for each name of
\* the env list; and ReadOnly.Logging.Debug is read from that variable only
C6_PrefixLaw ==
    /\ \A k \in 1..Len(metaInfo) :
          LET path == metaInfo[k].fieldValue
              names == DeclaredNames(DeclAt(cfgT, path))
          IN  metaInfo[k].envList =
                  [n \in 1..Len(names) |-> AncestorPrefix(path, 1) \o names[n]]
    /\ (Succeeded /\ IsPrefixCall) =>
          /\ cfg[2][2][1] = (ReadOnlyDebugName \in DOMAIN environ)
          /\ cfg[2][1] = IF <<"R", "_", "H">> \in DOMAIN environ
                            \/ <<"R", "_", "I">> \in DOMAIN environ
                         THEN <<"1">> ELSE <<>>

\* Debug of ReadOnly.Logging (prefixes R_ then D_) is set from R_D_G alone,
\* Debug of Default.Logging stays false
C6_Witness ==
    /\ Succeeded /\ IsPrefixCall
    /\ LoggingPrefix = <<"D", "_">>
    /\ DOMAIN environ = {<<"R", "_", "D", "_", "G">>, <<"R", "_", "I">>}
    /\ metaInfo[8].envList = <<<<"R", "_", "D", "_", "G">>>>
    /\ cfg[2][2][1] = TRUE /\ cfg[1][2][1] = FALSE
    /\ cfg[2][1] = <<"1">> /\ cfg[1][1] = <<>>

\* the paths of the settable leaf (non-structure) fields below the structure
\* of type t at path
RECURSIVE SettableLeaves(_, _)
SettableLeaves(t, path) ==
    UNION {LET f == t.fields[n]
           IN  IF ~f.exported THEN {}
               ELSE IF f.type.kind = "struct"
               THEN SettableLeaves(f.type, path \o <<n>>)
               ELSE {path \o <<n>>} : n \in 1..Len(t.fields)}

\* C7 as stated: once extraction is over the descriptors are exactly the
\* settable leaf fields, one each, and none is a nested structure
C7_Descriptors_AsStated ==
    pc \notin {"readStructMetadata", "panic"} =>
        /\ {metaInfo[k].fieldValue : k \in 1..Len(metaInfo)} = SettableLeaves(cfgT, <<>>)
        /\ \A k \in 1..Len(metaInfo), j \in 1..Len(metaInfo) :
              metaInfo[k].fieldValue = metaInfo[j].fieldValue => k = j
        /\ \A k \in 1..Len(metaInfo) : FieldType(metaInfo[k]).kind # "struct"

\* the paths of all fields that are not settable
RECURSIVE Unsettable(_, _)
Unsettable(t, path) ==
    UNION {LET f == t.fields[n]
           IN  IF ~f.exported THEN {path \o <<n>>}
               ELSE IF f.type.kind = "struct"
               THEN Unsettable(f.type, path \o <<n>>)
               ELSE {} : n \in 1..Len(t.fields)}

\* C8 as stated: a field that is not settable gets no descriptor, keeps its
\* value through all layers, and Read neither fails on it nor panics
C8_Unsettable_AsStated ==
    /\ pc # "panic"
    /\ \A k \in 1..Len(metaInfo) : metaInfo[k].fieldValue \notin Unsettable(cfgT, <<>>)
    /\ \A path \in Unsettable(cfgT, <<>>) :
          ValueAt(cfg, path) = ZeroValue(TypeAt(cfgT, path))

\* the raw value the sources hand to the composite field X, and its separator
XRaw == IF flags # None THEN XFlag.Value ELSE environ[EnvNameOf(1)]
XSep == IF IsSome(XDecl.sep) THEN Val(XDecl.sep) ELSE <<",">>

\* the text is empty or made of blanks only
Blank(s) == \A i \in 1..Len(s) : s[i] = " "

\* the positions at which the one-character separator stands in s, and the
\* k-th of them
SepAt(s, sep) == {i \in 1..Len(s) : s[i] = sep[1]}
NthCut(C, k) == CHOOSE c \in C : Cardinality({d \in C : d < c}) = k - 1

\* the pieces of s between the separators, in order
Pieces(s, sep) ==
    LET C == SepAt(s, sep)
        n == Cardinality(C)
    IN  [k \in 1..(n + 1) |->
            SubSeq(s, IF k = 1 THEN 1 ELSE NthCut(C, k - 1) + 1,
                      IF k = n + 1 THEN Len(s) ELSE NthCut(C, k) - 1)]

\* a piece coerced to type t by the coercion rules with separator sep
CoercedWith(t, text, sep) == parseValue(t, ZeroValue(t), text, sep)

\* C9: a sequence field of element type other than a byte receives the pieces
\* of the raw value between the separators, each coerced with the same rules
\* and separator, same length and order; a blank raw value gives a sequence of
\* length 0; a byte sequence receives the raw value's bytes without splitting
C9_SliceCoercion ==
    (IsSingle /\ XType.kind = "slice" /\ pc = "done") =>
        LET elem == Val(XType.elem)
            P == Pieces(XRaw, XSep)
        IN  IF elem.kind = "uint" /\ elem.bits = 8
            THEN /\ Succeeded
                 /\ Len(XValue.elems) = Len(XRaw)
                 /\ \A i \in 1..Len(XRaw) : XValue.elems[i] = ByteOf(XRaw[i])
            ELSE IF Blank(XRaw)
            THEN Succeeded /\ ~XValue.isNil /\ Len(XValue.elems) = 0
            ELSE IF \A k \in 1..Len(P) : CoercedWith(elem, P[k], XSep).err = None
            THEN /\ Succeeded
                 /\ Len(XValue.elems) = Len(P)
                 /\ \A k \in 1..Len(P) :
                       XValue.elems[k] = CoercedWith(elem, P[k], XSep).v
            ELSE FailedWith("CoercionError")

\* "1,2,3" with the default separator has become [1,2,3]
C9_Witness ==
    /\ Succeeded
    /\ XType = TSlice(TInt(IntBits))
    /\ XDecl.sep = None
    /\ XRaw = <<"1", ",", "2", ",", "3">>
    /\ XValue.elems = <<1, 2, 3>>

\* the positions of ":" in a pair, its key text and its value text
Colons(pair) == {i \in 1..Len(pair) : pair[i] = ":"}
KeyText(pair) == SubSeq(pair, 1, Least(Colons(pair)) - 1)
ValueText(pair) == SubSeq(pair, Least(Colons(pair)) + 1, Len(pair))

\* the mapping law for the pairs P of a field of type t: a pair without ":"
\* or with a key or value that does not coerce fails; else the mapping holds
\* exactly the keys of the pairs, each with the value of its last pair
MapLaw(t, P, sep) ==
    LET key(k) == CoercedWith(Val(t.key), KeyText(P[k]), sep)
        value(k) == CoercedWith(Val(t.elem), ValueText(P[k]), sep)
    IN  IF \E k \in 1..Len(P) : Colons(P[k]) = {}
        THEN FailedWith("CoercionError")
        ELSE IF \E k \in 1..Len(P) : key(k).err # None \/ value(k).err # None
        THEN FailedWith("CoercionError")
        ELSE /\ Succeeded
             /\ ~XValue.isNil
             /\ DOMAIN XValue.kv = {key(k).v : k \in 1..Len(P)}
             /\ \A k \in 1..Len(P) :
                   (\A j \in (k + 1)..Len(P) : key(j).v # key(k).v)
                       => XValue.kv[key(k).v] = value(k).v

\* C10 as stated: every raw value is split into pairs and follows the mapping
\* law, so the one pair "" of an empty raw value fails for want of a ":"
C10_MapCoercion_AsStated ==
    (IsSingle /\ XType.kind = "map" /\ pc = "done") =>
        MapLaw(XType, Pieces(XRaw, XSep), XSep)

\* C10: a raw value that is not blank is split on the separator into pairs,
\* each pair on its first ":" only, key and value are coerced, a pair without
\* ":" fails with CoercionError, and of several pairs with one key the last
\* gives the value; a blank raw value gives the empty mapping without error
C10_MapCoercion ==
    (IsSingle /\ XType.kind = "map" /\ pc = "done") =>
        IF Blank(XRaw)
        THEN Succeeded /\ ~XValue.isNil /\ DOMAIN XValue.kv = {}
        ELSE MapLaw(XType, Pieces(XRaw, XSep), XSep)

\* "a:1,b:2,a:2" has become {a:2, b:2}
C10_Witness ==
    /\ Succeeded
    /\ XType = TMap(TString, TInt(IntBits))
    /\ XDecl.sep = None
    /\ XRaw = <<"a", ":", "1", ",", "b", ":", "2", ",", "a", ":", "2">>
    /\ DOMAIN XValue.kv = {<<"a">>, <<"b">>}
    /\ XValue.kv[<<"a">>] = 2 /\ XValue.kv[<<"b">>] = 2

\* C11: on a root that is no structure behind one pointer the only step Read
\* takes is the one that returns ShapeError: it is taken from the start, before
\* the file, the environment and the flags are looked at, and leaves the
\* passed value and the file argument as they were
C11_ShapeCheck ==
    [][cfgT.kind # "struct" =>
          /\ pc = "readStructMetadata" /\ pc' = "done"
          /\ err' # None /\ Val(err').kind = "ShapeError"
          /\ cfg' = cfg
          /\ UNCHANGED <<file, rawValue, metaInfo, metaIdx>>]_vars

\* Read(&x) with x = 42 has failed with ShapeError although a file, a set
\* variable and a changed flag were at hand; x is still 42
C11_Witness ==
    /\ FailedWith("ShapeError")
    /\ cfgT = TInt(IntBits) /\ cfg = 42
    /\ caller.file = YamlPath /\ Exists(YamlPath)
    /\ EnvNameOf(1) \in DOMAIN environ
    /\ flags # None

\* the call passes a DefaultFileConfig
IsDefaultCall == defaultCfg.Name # <<>>

\* the candidate <path>/<Name>.<ext> of directory number i and extension
\* number j, "~" standing for the home directory
DirOf(p) == IF p = <<"~">> THEN Home ELSE p
Candidate(i, j) ==
    DirOf(defaultCfg.Paths[i]) \o <<"/">> \o defaultCfg.Name \o <<".">>
        \o defaultCfg.Extensions[j]

\* the candidates that exist, and the first of them: directories in turn, and
\* within one directory the extensions in turn
Existing ==
    {c \in (1..Len(defaultCfg.Paths)) \X (1..Len(defaultCfg.Extensions)) :
        Candidate(c[1], c[2]) \in DOMAIN fs}
FirstExisting ==
    CHOOSE c \in Existing :
        \A d \in Existing : c[1] < d[1] \/ (c[1] = d[1] /\ c[2] <= d[2])

\* the file the file layer is to decode: the explicit one, else the first
\* existing candidate, else none
DecodedFile ==
    IF caller.file # <<>> THEN caller.file
    ELSE IF Existing = {} THEN <<>>
    ELSE Candidate(FirstExisting[1], FirstExisting[2])

\* C12: with an empty file argument the file layer decodes the first existing
\* candidate, directories of Paths in turn and within each the extensions in
\* turn; an explicit file is taken as it is; when no candidate exists the
\* layer is skipped without error and the environment, the flags and the
\* required check still decide the outcome
C12_DefaultFile ==
    /\ [](IsDefaultCall /\ pc \notin {"readStructMetadata", "findDefaultFile"}
            => file = DecodedFile)
    /\ [][(IsDefaultCall /\ pc = "parseFile") =>
            /\ pc' = "readEnvVars" /\ err' = None
            /\ IF DecodedFile = <<>> THEN cfg' = cfg
               ELSE cfg'[1] = fs[DecodedFile].doc[1][2]]_vars
    /\ [](IsDefaultCall /\ DecodedFile = <<>> /\ pc = "done" =>
            IF flags # None THEN Succeeded /\ XValue = 2
            ELSE IF EnvNameOf(1) \in DOMAIN environ THEN Succeeded /\ XValue = 1
            ELSE FailedWith("RequiredFieldError"))

\* Paths "/a", "~" and Extensions "yaml", "json" with /a/c.json and the home
\* directory's c.yaml present but no /a/c.yaml: /a/c.json was decoded
C12_Witness ==
    /\ Succeeded /\ IsDefaultCall /\ caller.file = <<>>
    /\ Len(defaultCfg.Paths) = 2 /\ defaultCfg.Paths[1] = <<"/", "a">>
    /\ defaultCfg.Paths[2] = <<"~">>
    /\ Len(defaultCfg.Extensions) = 2 /\ defaultCfg.Extensions[1] = <<"y", "a", "m", "l">>
    /\ defaultCfg.Extensions[2] # <<"y", "a", "m", "l">>
    /\ DOMAIN fs = {DefaultFiles[2], DefaultFiles[3], ExplicitPath}
    /\ file = DefaultFiles[2]
    /\ environ = <<>> /\ flags = None
    /\ XValue = 2

\* the path ends, whatever the case of its letters, with .yaml, .yml or .json
KnownExts == {<<".", "y", "a", "m", "l">>, <<".", "y", "m", "l">>, <<".", "j", "s", "o", "n">>}
HasKnownExt(path) ==
    \E e \in KnownExts :
        /\ Len(path) >= Len(e)
        /\ ToLower(SubSeq(path, Len(path) - Len(e) + 1, Len(path))) = e

\* C13 as stated: every explicit path of another extension makes Read fail
\* with UnsupportedFormatError and leaves ConfigRoot as it was passed in
C13_Format_AsStated ==
    (caller.file # <<>> /\ ~HasKnownExt(caller.file) /\ pc = "done") =>
        FailedWith("UnsupportedFormatError") /\ cfg = ZeroValue(cfgT)

\* C13: an explicit path of another extension that can be opened makes Read
\* fail with UnsupportedFormatError, one that cannot be opened with
\* FileAccessError; in both cases nothing is decoded and ConfigRoot is left as
\* it was passed in
C13_Format ==
    (caller.file # <<>> /\ ~HasKnownExt(caller.file) /\ pc = "done") =>
        /\ IF caller.file \in DOMAIN fs THEN FailedWith("UnsupportedFormatError")
           ELSE FailedWith("FileAccessError")
        /\ cfg = ZeroValue(cfgT)

\* Read with the existing file /x.txt has failed with UnsupportedFormatError;
\* X is zero although the file holds X := 9 and the variable A is set
C13_Witness ==
    /\ FailedWith("UnsupportedFormatError")
    /\ caller.file = <<"/", "x", ".", "t", "x", "t">>
    /\ caller.file \in DOMAIN fs /\ fs[caller.file].ok
    /\ EnvNameOf(1) \in DOMAIN environ
    /\ XValue = 0

IsAbort == cfgT = AbortT
Unreadable == <<"x">>

\* the values the environment layer gives Q and R of AbortT when the file
\* layer has given Q the value q
QAfterEnv(q) == IF EnvNameOf(2) \in DOMAIN environ THEN 1 ELSE q
RAfterEnv == IF EnvNameOf(3) \in DOMAIN environ THEN <<"1">> ELSE <<>>

\* C15: the step on which a stage fails is the last step of Read: it returns
\* that stage's error at once, the position within the layer stays at the
\* failing descriptor, what the fields held before the failing step they
\* still hold (of a malformed file what the decoder had stored), and after
\* the return nothing runs.  On AbortT: a failing file leaves P without its
\* default; B = "x" leaves P = "1", Q as the file left it and R empty though C
\* is set, g is changed and R is required; f = "x" leaves the values of the
\* file and environment layers and R without the value of g
C15_Abort ==
    /\ [][pc # "done"]_vars
    /\ [][err' # None =>
            /\ pc' = "done" /\ metaIdx' = metaIdx
            /\ cfg' = IF pc = "parseFile" /\ file \in DOMAIN fs /\ HasKnownExt(file)
                      THEN Decode(fs[file].doc, cfg) ELSE cfg]_vars
    /\ [](IsAbort /\ pc = "done" =>
            LET fileFails == file # <<>> /\ (file \notin DOMAIN fs \/ ~HasKnownExt(file)
                                               \/ ~fs[file].ok)
                stored == file \in DOMAIN fs /\ HasKnownExt(file)
                q == IF stored THEN 5 ELSE 0
                envFails == EnvNameOf(2) \in DOMAIN environ
                                /\ environ[EnvNameOf(2)] = Unreadable
                flagFails == flags # None /\ Val(flags)[FlagName].Changed
                                /\ Val(flags)[FlagName].Value = Unreadable
            IN  IF fileFails
                THEN /\ err # None
                     /\ Val(err).kind \in {"FileAccessError", "DecodeError",
                                            "UnsupportedFormatError"}
                     /\ cfg = <<<<>>, q, <<>>>>
                ELSE IF envFails
                THEN FailedWith("CoercionError") /\ cfg = <<<<"1">>, q, <<>>>>
                ELSE IF flagFails
                THEN FailedWith("CoercionError")
                        /\ cfg = <<<<"1">>, QAfterEnv(q), RAfterEnv>>
                ELSE TRUE)

\* B = "x" with C set and the flags f = "2", g = "3" at hand: Read has failed
\* with CoercionError, P holds its default, Q is zero and R is empty
C15_Witness ==
    /\ IsAbort /\ FailedWith("CoercionError")
    /\ caller.file = <<>>
    /\ DOMAIN environ = {EnvNameOf(2), EnvNameOf(3)}
    /\ environ[EnvNameOf(2)] = Unreadable
    /\ flags # None /\ Val(flags)[FlagName].Value = <<"2">>
    /\ cfg = <<<<"1">>, 0, <<>>>>
    /\ metaIdx = 2

\* C16: a step of the environment or flag layer that fails to coerce its raw
\* value leaves every field, the target included, holding what it held before
\* the step; so a field that received a value from the variable A and then a
\* flag value that does not coerce ends with the value of A, a sequence or
\* mapping never with some of the flag value's pieces
C16_FailureKeeps ==
    /\ [][(pc \in {"readEnvVars", "parseFlags"} /\ err' # None) =>
            /\ Val(err').kind \in {"CoercionError", "UnsupportedTypeError"}
            /\ cfg' = cfg]_vars
    /\ [](IsSingle /\ pc = "done" /\ err # None /\ flags # None =>
            XValue = IF EnvNameOf(1) \in DOMAIN environ
                     THEN CoercedWith(XType, environ[EnvNameOf(1)], XSep).v
                     ELSE ZeroValue(XType))

\* the []int8 field got [1] from A = "1"; the flag value "1,a" has failed on
\* its second element and the field still holds [1]
C16_Witness ==
    /\ FailedWith("CoercionError")
    /\ XType = TSlice(TInt(IntBits)) /\ XDecl.sep = None
    /\ flags # None /\ XFlag.Value = <<"1", ",", "a">>
    /\ EnvNameOf(1) \in DOMAIN environ
    /\ XValue = [isNil |-> FALSE, elems |-> <<1>>]

\* the index of the first occurrence of x in the sequence s
FirstIndex(s, x) == Least({k \in 1..Len(s) : s[k] = x})

\* C17: the result of Unique is a non-nil slice that holds every value of the
\* argument exactly once and no other value, in the order of the values' first
\* occurrences in the argument; Unique of that result is the same slice
C17_Unique ==
    /\ [](list # None =>
            LET in == stringSlice.elems
                out == Val(list).elems
            IN  /\ ~Val(list).isNil
                /\ {out[i] : i \in 1..Len(out)} = {in[k] : k \in 1..Len(in)}
                /\ \A i \in 1..Len(out), j \in 1..Len(out) : out[i] = out[j] => i = j
                /\ \A i \in 1..Len(out), j \in 1..Len(out) :
                      i < j => FirstIndex(in, out[i]) < FirstIndex(in, out[j]))
    /\ [][list # None => list' = list]_vars

\* Unique of ["a", "b", "a"] is ["a", "b"]
C17_Witness ==
    /\ stringSlice = [isNil |-> FALSE, elems |-> <<"a", "b", "a">>]
    /\ list = Some([isNil |-> FALSE, elems |-> <<"a", "b">>])

\* the position of a structure in the work queue; the structure a field
\* belongs to and the field's number in it
NodeIdx(path) == CHOOSE k \in 1..Len(cfgStack) : cfgStack[k].Val = path
Parent(path) == SubSeq(path, 1, Len(path) - 1)
FieldNo(path) == path[Len(path)]

\* field p comes before field q: its structure is earlier in the queue, or
\* both are fields of one structure and p is declared first
Before(p, q) ==
    \/ NodeIdx(Parent(p)) < NodeIdx(Parent(q))
    \/ Parent(p) = Parent(q) /\ FieldNo(p) < FieldNo(q)

\* the nested structures below the structure of type t at path
RECURSIVE StructPaths(_, _)
StructPaths(t, path) ==
    UNION {IF t.fields[n].type.kind = "struct"
           THEN {path \o <<n>>} \cup StructPaths(t.fields[n].type, path \o <<n>>)
           ELSE {} : n \in 1..Len(t.fields)}

IsCollide == Len(cfgT.fields) = 3 /\ cfgT.fields[1].name = "First"
Leaf(k) == FieldType(metaInfo[k]).kind # "struct"
Shadowed ==
    {k \in 1..Len(metaInfo) :
        /\ Leaf(k)
        /\ \E j \in (k + 1)..Len(metaInfo) :
              Leaf(j) /\ metaInfo[j].envList = metaInfo[k].envList}

\* what the variable named for descriptor k gives its field: the value the
\* variable holds, zero when it is not set
FromVariable(k) ==
    IF metaInfo[k].envList[1] \in DOMAIN environ
    THEN CoercedWith(FieldType(metaInfo[k]), environ[metaInfo[k].envList[1]], <<",">>).v
    ELSE 0

\* C19 as stated: fields with one and the same environment name do not make
\* Read fail, and only the field of the later descriptor is set from the
\* variable, the earlier one keeping its zero value
C19_Collision_AsStated ==
    (IsCollide /\ pc = "done") =>
        /\ Succeeded
        /\ \A k \in 1..Len(metaInfo) :
              Leaf(k) => FieldOf(metaInfo[k], cfg)
                            = IF k \in Shadowed THEN 0 ELSE FromVariable(k)

\* C19: fields with one and the same environment name do not make Read fail,
\* and every one of them, the earlier as the later, is set from the variable
C19_Collision ==
    (IsCollide /\ pc = "done") =>
        /\ Succeeded
        /\ \A k \in 1..Len(metaInfo) :
              Leaf(k) => FieldOf(metaInfo[k], cfg) = FromVariable(k)

\* First.Z, Second.Z and Y are all read from P_C = "1" and all hold 1
C19_Witness ==
    /\ IsCollide /\ Succeeded
    /\ Cardinality(Shadowed) = 2
    /\ DOMAIN environ = {<<"P", "_", "C">>}
    /\ cfg = <<<<1>>, <<1>>, 1>>

\* the flag of X is registered with a non-empty default and was not changed
UnchangedFlagDefault ==
    /\ IsSome(XDecl.flag) /\ flags # None /\ FlagName \in DOMAIN Val(flags)
    /\ ~XFlag.Changed /\ XFlag.DefValue # <<>>

\* C20 as stated: when the flag of X has a non-empty default and was not
\* changed, a non-zero value X got from the file or from a set environment
\* variable is the value X has after the flag layer, whatever it is
C20_UnchangedFlag_AsStated ==
    (/\ Succeeded /\ IsSingle /\ UnchangedFlagDefault
     /\ (EnvIsSet(XEnvList) \/ FileSupplies)
     /\ ~isZero(XType, AfterEnv))
        => XValue = AfterEnv

====
